---- MODULE Spec2Model ----
(***************************************************************************)
(* A model of nanogo: the base-32 codec, the address codec, seed/key       *)
(* derivation, the block hash preimage, block signing and the RPC client.  *)
(*                                                                         *)
(* Strings are sequences of one-character strings, byte slices are         *)
(* sequences of 0..255, and a big.Int is its magnitude as a minimal        *)
(* big-endian byte sequence (what big.Int.Bytes returns; <<>> is zero).    *)
(* A call returns a record [status, val, err]: status is "ok", "error"     *)
(* (a non-nil error value was returned) or "panic" (a Go run-time panic).  *)
(***************************************************************************)
EXTENDS Integers, Sequences, FiniteSets, TLC

VARIABLES
    publicKey,   \* the [32]byte the caller last passed to PublicKeyToAddress
    address,     \* the address string the caller holds
    origin,      \* where address comes from: "none", "derived" (the unmodified result of
                 \* PublicKeyToAddress(publicKey)), "legacy", "tampered" or "literal"
    blake5,      \* the 5-byte BLAKE2b digests computed so far: data |-> digest
    ret,         \* the last call: [fn, arg, origin, status, val, err]
    block,       \* the Block the caller holds
    signLog,     \* the successful Sign calls so far: [fields, privateKey, random, signature]
    derivLog,    \* the successful SeedToPrivateKey calls so far: [seed, index, comb, key]
    node,        \* the ledger of the node behind the RPC server, for the wallet's account
    call,        \* the Client method that is running: its position and its locals
    events       \* what the running Send, Receive or ChangeRepresentative (or query)
                 \* has called so far: [fn, rpc, status, block]

vars == <<publicKey, address, origin, blake5, ret, block, signLog, derivLog, node, call, events>>

addrVars == <<publicKey, address, origin, blake5>>
blockVars == <<block, signLog>>
clientVars == <<node, call, events>>

----------------------------------------------------------------------------
(* Bounds of the model. *)

\* keys with 0..MaxZeroBytes leading zero bytes are drawn (and the all-zero key)
MaxZeroBytes == 2
\* loop passes evaluated per level of recursion (no effect on any result)
LoopChunk == 8
\* Sign calls in one run
MaxSigns == 2
\* SeedToPrivateKey calls in one run
MaxDerivations == 2

(* Program constants. *)
KeySize == 32
RadixInt == 32
KeyDigits == 52
SumDigits == 8
SumSize == 5
NanoLen == 65
XrbLen == 64

----------------------------------------------------------------------------
(* Results of calls. *)

Ok(v) == [status |-> "ok", val |-> v, err |-> "nil"]
Err(v, e) == [status |-> "error", val |-> v, err |-> e]
Panic(e) == [status |-> "panic", val |-> <<>>, err |-> e]

Byte == 0..255

Zeros(n) == [i \in 1..n |-> 0]

Repeat(c, n) == [i \in 1..n |-> c]

----------------------------------------------------------------------------
(* math/big on magnitudes. *)

\* big.Int.SetBytes: the big-endian unsigned integer, normalised
RECURSIVE SetBytes(_)
SetBytes(in) ==
    IF in = <<>> THEN <<>>
    ELSE IF Head(in) = 0 THEN SetBytes(Tail(in)) ELSE in

\* one long-division pass, most significant byte first; carry is the running remainder
RECURSIVE DivModFrom(_, _, _, _)
DivModFrom(num, d, i, carry) ==
    IF i > Len(num) THEN [q |-> <<>>, r |-> carry]
    ELSE LET cur == carry * 256 + num[i]
             rest == DivModFrom(num, d, i + 1, cur % d)
         IN  [q |-> <<cur \div d>> \o rest.q, r |-> rest.r]

\* big.Int.DivMod(num, radix, mod) for a small radix
DivMod(num, d) ==
    LET x == DivModFrom(num, d, 1, 0)
    IN  [q |-> SetBytes(x.q), r |-> x.r]

\* o*m + a, least significant byte first; carry starts as a
RECURSIVE MulAddFrom(_, _, _, _)
MulAddFrom(o, m, i, carry) ==
    IF i = 0 THEN (IF carry = 0 THEN <<>> ELSE <<carry>>)
    ELSE LET cur == o[i] * m + carry
         IN  Append(MulAddFrom(o, m, i - 1, cur \div 256), cur % 256)

\* big.Int.Mul(o, radix) followed by big.Int.Add(o, val), for small radix and val
MulAdd(o, m, a) == SetBytes(MulAddFrom(o, m, Len(o), a))

----------------------------------------------------------------------------
(* The base-32 codec. *)

Alph == <<"1", "3", "4", "5", "6", "7", "8", "9", "a", "b", "c", "d", "e", "f", "g", "h",
          "i", "j", "k", "m", "n", "o", "p", "q", "r", "s", "t", "u", "w", "x", "y", "z">>

AlphSet == {Alph[i] : i \in 1..Len(Alph)}

\* revAlph[r]: the value of the digit r
revAlph(r) == (CHOOSE i \in 1..Len(Alph) : Alph[i] = r) - 1

Reverse(s) == [i \in 1..Len(s) |-> s[Len(s) + 1 - i]]

revertBytes(in) == Reverse(in)

\* up to n passes of the loop  for num.Cmp(z) > 0 { num.DivMod(num, radix, mod); o = append(o, alph[mod]) }
\* on st = [num, o]
RECURSIVE EncodeSteps(_, _)
EncodeSteps(st, n) ==
    IF n = 0 \/ st.num = <<>> THEN st
    ELSE LET dm == DivMod(st.num, RadixInt)
             next == [num |-> dm.q, o |-> Append(st.o, Alph[dm.r + 1])]
         IN  IF Len(next.o) > 0 THEN EncodeSteps(next, n - 1) ELSE next

\* the whole loop, LoopChunk passes at a time
RECURSIVE EncodeLoop(_)
EncodeLoop(st) ==
    IF st.num = <<>> THEN st.o
    ELSE LET next == EncodeSteps(st, LoopChunk)
         IN  IF Len(next.o) > 0 THEN EncodeLoop(next) ELSE next.o

base32Encode(in) == Reverse(EncodeLoop([num |-> SetBytes(in), o |-> <<>>]))

\* the passes i..j of the loop  for _, r := range in { o.Mul(o, radix); val, ok := revAlph[r]; ...; o.Add(o, val) }
RECURSIVE DecodeSteps(_, _, _, _)
DecodeSteps(in, i, j, o) ==
    IF i > j THEN Ok(o)
    ELSE IF in[i] \notin AlphSet THEN Err(<<>>, "InvalidCharacter")
    ELSE LET next == MulAdd(o, RadixInt, revAlph(in[i]))
         IN  IF Len(next) >= 0 THEN DecodeSteps(in, i + 1, j, next) ELSE Ok(next)

\* the whole loop, LoopChunk passes at a time
RECURSIVE DecodeLoop(_, _, _)
DecodeLoop(in, i, o) ==
    IF i > Len(in) THEN Ok(o)
    ELSE LET j == IF i + LoopChunk - 1 < Len(in) THEN i + LoopChunk - 1 ELSE Len(in)
             part == DecodeSteps(in, i, j, o)
         IN  IF part.status = "error" THEN part ELSE DecodeLoop(in, j + 1, part.val)

base32Decode(in) == DecodeLoop(in, 1, <<>>)

----------------------------------------------------------------------------
(* The address codec. *)

NanoPrefix == <<"n", "a", "n", "o", "_">>
XrbPrefix == <<"x", "r", "b", "_">>

\* no padding written at all
StringsRepeatNone(c, n) == IF n < 0 THEN Panic("negative Repeat count") ELSE Ok(<<>>)

\* strings.Repeat panics on a negative count
StringsRepeat(c, n) == IF n < 0 THEN Panic("negative Repeat count") ELSE Ok(Repeat(c, n))

\* the digest that blake2b.New(5, nil) gives for data: the one already computed for
\* data, else the fresh value the hash function turns out to have there
Blake2b5(data, fresh) == IF data \in DOMAIN blake5 THEN blake5[data] ELSE fresh

Blake5After(data, fresh) ==
    IF data \in DOMAIN blake5 THEN blake5
    ELSE [d \in DOMAIN blake5 \cup {data} |-> IF d = data THEN fresh ELSE blake5[d]]

\* sum5 is the 5-byte digest h.Sum(nil) of pubKey
PublicKeyToAddress(pubKey, sum5) ==
    LET b32PubKey == base32Encode(pubKey)
        b32Hash == base32Encode(revertBytes(sum5))
        padKey == StringsRepeat("1", KeyDigits - Len(b32PubKey))
        padSum == StringsRepeat("1", SumDigits - Len(b32Hash))
    IN  IF padKey.status = "panic" THEN padKey
        ELSE IF padSum.status = "panic" THEN padSum
        ELSE Ok(NanoPrefix \o padKey.val \o b32PubKey \o padSum.val \o b32Hash)

\* the conversion [32]byte(bytes): a run-time panic when the slice is shorter than
\* the array, else the first 32 elements
SliceToArray32(bytes) ==
    IF Len(bytes) < KeySize THEN Panic("slice shorter than array")
    ELSE Ok(SubSeq(bytes, 1, KeySize))

\* return [32]byte(bytes), err  on the result dec of base32Decode: the conversion is
\* evaluated whatever err is
ReturnArray32(dec) ==
    LET arr == SliceToArray32(dec.val)
    IN  IF arr.status = "panic" THEN arr
        ELSE IF dec.status = "error" THEN Err(arr.val, dec.err)
        ELSE arr

DecodeKeySegment(seg) == ReturnArray32(base32Decode(seg))

AddressToPublicKey(addr) ==
    IF Len(addr) = XrbLen THEN DecodeKeySegment(SubSeq(addr, 5, 56))
    ELSE IF Len(addr) = NanoLen THEN DecodeKeySegment(SubSeq(addr, 6, 57))
    ELSE Err(Zeros(KeySize), "MalformedAddress")

HasPrefix(s, p) == Len(s) >= Len(p) /\ SubSeq(s, 1, Len(p)) = p

\* strings.ReplaceAll(s, old, ""): every non-overlapping occurrence of old removed
RECURSIVE RemoveAll(_, _)
RemoveAll(s, old) ==
    IF s = <<>> THEN <<>>
    ELSE IF HasPrefix(s, old) THEN RemoveAll(SubSeq(s, Len(old) + 1, Len(s)), old)
    ELSE <<Head(s)>> \o RemoveAll(Tail(s), old)

\* the prefix the loop over {"nano", "xrb"} settles on, without its "_"; <<>> when none
ValidPrefix(addr) ==
    IF HasPrefix(addr, SubSeq(NanoPrefix, 1, 4)) /\ Len(addr) = 61 + 4 THEN SubSeq(NanoPrefix, 1, 4)
    ELSE IF HasPrefix(addr, SubSeq(XrbPrefix, 1, 3)) /\ Len(addr) = 61 + 3 THEN SubSeq(XrbPrefix, 1, 3)
    ELSE <<>>

\* ^(prefix)_[13]{1}[13456789abcdefghijkmnopqrstuwxyz]{59}$
MatchPattern(addr, prefix) ==
    LET n == Len(prefix)
    IN  /\ Len(addr) = n + 1 + 1 + 59
        /\ SubSeq(addr, 1, n) = prefix
        /\ addr[n + 1] = "_"
        /\ addr[n + 2] \in {"1", "3"}
        /\ \A i \in (n + 3)..(n + 61) : addr[i] \in AlphSet

\* a comparison of the first 7 checksum characters only
CheckSumLoose(addr, fresh, prefix, pk) ==
    LET withoutPrefix == RemoveAll(addr, prefix \o <<"_">>)
        origSum == SubSeq(withoutPrefix, Len(withoutPrefix) - 7, Len(withoutPrefix))
        sumBytes == Blake2b5(pk.val, fresh)
        sum == base32Encode(revertBytes(SubSeq(sumBytes, 1, SumSize)))
    IN  IF ~MatchPattern(addr, prefix) THEN [res |-> Ok(FALSE), hashed |-> {}]
        ELSE IF pk.status = "panic" THEN [res |-> pk, hashed |-> {}]
        ELSE IF pk.status = "error" THEN [res |-> Ok(FALSE), hashed |-> {}]
        ELSE [res |-> Ok(Len(sum) = SumDigits /\ SubSeq(sum, 1, 7) = SubSeq(origSum, 1, 7)),
              hashed |-> {pk.val}]

\* AddressIsValid from the pattern check on; pk is the result of AddressToPublicKey
CheckSum(addr, fresh, prefix, pk) ==
    LET withoutPrefix == RemoveAll(addr, prefix \o <<"_">>)
        origSum == SubSeq(withoutPrefix, Len(withoutPrefix) - 7, Len(withoutPrefix))
        sumBytes == Blake2b5(pk.val, fresh)
        sum == base32Encode(revertBytes(SubSeq(sumBytes, 1, SumSize)))
    IN  IF ~MatchPattern(addr, prefix) THEN [res |-> Ok(FALSE), hashed |-> {}]
        ELSE IF pk.status = "panic" THEN [res |-> pk, hashed |-> {}]
        ELSE IF pk.status = "error" THEN [res |-> Ok(FALSE), hashed |-> {}]
        ELSE [res |-> Ok(sum = origSum), hashed |-> {pk.val}]

\* AddressIsValid once the prefix loop has settled on prefix
CheckPrefixed(addr, fresh, prefix) ==
    IF prefix = <<>> THEN [res |-> Ok(FALSE), hashed |-> {}]
    ELSE CheckSum(addr, fresh, prefix, AddressToPublicKey(addr))

\* hashed: the data handed to the 5-byte hash, when the call gets that far
AddressIsValid(addr, fresh) ==
    IF addr = <<>> THEN [res |-> Ok(FALSE), hashed |-> {}]
    ELSE CheckPrefixed(addr, fresh, ValidPrefix(addr))

----------------------------------------------------------------------------
(* The addresses and field values the blocks are built from. *)

\* z zero bytes, then the byte b
KeyWith(z, b) == [i \in 1..KeySize |-> IF i <= z THEN 0 ELSE b]

\* BLAKE2b-5 of the keys the blocks use
KnownDigest(k) ==
    IF k = Zeros(KeySize) THEN <<214, 82, 163, 26, 124>>
    ELSE IF k = KeyWith(0, 200) THEN <<146, 9, 85, 73, 166>>
    ELSE <<139, 1, 237, 121, 35>>

AccountOf(k) == PublicKeyToAddress(k, KnownDigest(k)).val

BlockKeys == {Zeros(KeySize), KeyWith(0, 200), KeyWith(0, 7)}

ShortAddress == NanoPrefix \o Repeat("1", 10)

Accounts == {AccountOf(KeyWith(0, 200)), AccountOf(Zeros(KeySize)), ShortAddress}

Representatives == {AccountOf(KeyWith(0, 7)), AccountOf(Zeros(KeySize))}

\* AddressToPublicKey of the addresses the blocks use, computed once
DecodedAddresses == [a \in Accounts \cup Representatives |-> AddressToPublicKey(a)]

AddressToPublicKeyOf(a) == DecodedAddresses[a]

ZeroHash == Repeat("0", 64)

Previouses == {ZeroHash, Repeat("A", 64), <<"A", "B">>, <<"0">>}

Links == {ZeroHash, Repeat("7", 64), <<"G", "G">>}

\* 2^128 - 1 and 2^128
MaxBalance == <<"3", "4", "0", "2", "8", "2", "3", "6", "6", "9", "2", "0", "9", "3", "8", "4", "6", "3", "4",
                "6", "3", "3", "7", "4", "6", "0", "7", "4", "3", "1", "7", "6", "8", "2", "1", "1", "4", "5", "5">>
OverBalance == [MaxBalance EXCEPT ![39] = "6"]

Balances == {<<"0">>, <<"1", "0", "0", "0">>, MaxBalance, OverBalance, <<"-", "1">>, <<"1", "x">>}

----------------------------------------------------------------------------
(* encoding/hex and math/big parsing. *)

HexDigits == <<"0", "1", "2", "3", "4", "5", "6", "7", "8", "9", "a", "b", "c", "d", "e", "f">>
HexUpper == <<"0", "1", "2", "3", "4", "5", "6", "7", "8", "9", "A", "B", "C", "D", "E", "F">>

IsHex(c) == \E i \in 1..16 : c = HexDigits[i] \/ c = HexUpper[i]

HexVal(c) == (CHOOSE i \in 1..16 : c = HexDigits[i] \/ c = HexUpper[i]) - 1

\* hex.DecodeString: the bytes of the leading valid pairs, and an error at the first
\* character that is no hex digit or, for an odd length, at the end
HexDecodeString(str) ==
    LET pairs == Len(str) \div 2
        bad == {j \in 1..pairs : ~IsHex(str[2 * j - 1]) \/ ~IsHex(str[2 * j])}
        n == IF bad = {} THEN pairs ELSE (CHOOSE j \in bad : \A k \in bad : j <= k) - 1
        bytes == [j \in 1..n |-> HexVal(str[2 * j - 1]) * 16 + HexVal(str[2 * j])]
    IN  IF bad # {} THEN Err(bytes, "InvalidByte")
        ELSE IF Len(str) % 2 = 1
             THEN (IF IsHex(str[Len(str)]) THEN Err(bytes, "ErrLength") ELSE Err(bytes, "InvalidByte"))
        ELSE Ok(bytes)

DecDigits == <<"0", "1", "2", "3", "4", "5", "6", "7", "8", "9">>

IsDec(c) == \E i \in 1..10 : c = DecDigits[i]

DecVal(c) == (CHOOSE i \in 1..10 : c = DecDigits[i]) - 1

\* the passes i..j of the digit loop of nat.scan in base 10
RECURSIVE ScanSteps(_, _, _, _)
ScanSteps(str, i, j, o) ==
    IF i > j THEN o
    ELSE LET next == MulAdd(o, 10, DecVal(str[i]))
         IN  IF Len(next) >= 0 THEN ScanSteps(str, i + 1, j, next) ELSE next

RECURSIVE ScanLoop(_, _, _)
ScanLoop(str, i, o) ==
    IF i > Len(str) THEN o
    ELSE LET j == IF i + LoopChunk - 1 < Len(str) THEN i + LoopChunk - 1 ELSE Len(str)
             part == ScanSteps(str, i, j, o)
         IN  IF Len(part) >= 0 THEN ScanLoop(str, j + 1, part) ELSE part

\* new(big.Int).SetString(str, 10): an optional sign, then one or more decimal digits
\* and nothing else
SetString10(str) ==
    LET signed == str # <<>> /\ Head(str) \in {"+", "-"}
        digits == IF signed THEN Tail(str) ELSE str
        abs == ScanLoop(digits, 1, <<>>)
    IN  IF digits = <<>> \/ \E i \in 1..Len(digits) : ~IsDec(digits[i])
        THEN [ok |-> FALSE, neg |-> FALSE, abs |-> <<>>]
        ELSE [ok |-> TRUE, neg |-> (signed /\ Head(str) = "-" /\ abs # <<>>), abs |-> abs]

\* big.Int.FillBytes(make([]byte, n)): the absolute value, big-endian, zero-extended;
\* a panic when it does not fit
FillBytes(x, n) ==
    IF Len(x.abs) > n THEN Panic("big: buffer too small to fit value")
    ELSE Ok(Zeros(n - Len(x.abs)) \o x.abs)

----------------------------------------------------------------------------
(* Block: the hash preimage and signing. *)

PreimageSize == 176
BalanceSize == 16
BlockTypeByte == 6

\* copy(msg[lo:hi], src), offsets counted from 0 as in the code
Copy(msg, lo, hi, src) ==
    [i \in 1..Len(msg) |->
        IF i > lo /\ i <= hi /\ i - lo <= Len(src) THEN src[i - lo] ELSE msg[i]]

\* blake2b.Sum256 and the 512-bit BLAKE2b, as injective functions of their input
Blake2b256(data) == <<"blake2b-256", data>>
Blake2b512(parts) == <<"blake2b-512", parts>>

\* the copies into msg, in the order the code makes them
RECURSIVE CopyAll(_, _)
CopyAll(msg, copies) ==
    IF copies = <<>> THEN msg
    ELSE LET c == Head(copies)
         IN  CopyAll(Copy(msg, c.lo, c.hi, c.src), Tail(copies))

\* hashBytes from its decoded fields
HashFields(pubKey, prev, rep, bal, link) ==
    LET balBytes == FillBytes(bal, BalanceSize)
        msg == CopyAll([Zeros(PreimageSize) EXCEPT ![31 + 1] = BlockTypeByte],
                       << [lo |-> 32, hi |-> 64, src |-> pubKey.val],
                          [lo |-> 64, hi |-> 96, src |-> prev.val],
                          [lo |-> 96, hi |-> 128, src |-> rep.val],
                          [lo |-> 128, hi |-> 144, src |-> balBytes.val],
                          [lo |-> 144, hi |-> 176, src |-> link.val] >>)
    IN  IF pubKey.status # "ok" THEN [pubKey EXCEPT !.val = <<>>]
        ELSE IF prev.status # "ok" THEN [prev EXCEPT !.val = <<>>]
        ELSE IF rep.status # "ok" THEN [rep EXCEPT !.val = <<>>]
        ELSE IF ~bal.ok THEN Err(<<>>, "InvalidBalance")
        ELSE IF balBytes.status # "ok" THEN balBytes
        ELSE IF link.status # "ok" THEN [link EXCEPT !.val = <<>>]
        ELSE Ok(Blake2b256(msg))

\* the result holds the digest; its second element is the preimage
hashBytes(b) ==
    HashFields(AddressToPublicKeyOf(b.Account), HexDecodeString(b.Previous),
               AddressToPublicKeyOf(b.Representative), SetString10(b.Balance),
               HexDecodeString(b.Link))

\* SetBytesWithClamping of the first half of the digest, times the base point
PrivateKeyToPublicKey(privateKey) ==
    LET hashBytes_ == Blake2b512(<<privateKey>>)
        scalar == <<"clamp", <<"lo", hashBytes_>>>>
    IN  Ok(<<"ScalarBaseMult", scalar>>)

\* what rand.Read(randomH[:]) can do: fill the 32 bytes, or fail
RandomOutcomes == {[err |-> "nil", bytes |-> "r1"], [err |-> "nil", bytes |-> "r2"],
                   [err |-> "rand", bytes |-> "none"]}

Ed25519SignDeterministic(pubKey, privKey, msg, random) ==
    LET dig == Blake2b512(<<privKey>>)
        s1 == <<"clamp", <<"lo", dig>>>>
        msgDig == Blake2b512(<<<<"hi", dig>>, msg>>)
        rr == <<"uniform", msgDig>>
        enc == <<"ScalarBaseMult", rr>>
        hram == Blake2b512(<<enc, pubKey, msg>>)
        kr == <<"uniform", hram>>
        s2 == <<"MultiplyAdd", kr, s1, rr>>
    IN  Ok(<<enc, s2>>)

\* ed25519.Sign; random is the outcome of its one read of the random source
Ed25519Sign(pubKey, privKey, msg, random) ==
    LET dig == Blake2b512(<<privKey>>)
        s1 == <<"clamp", <<"lo", dig>>>>
        emptyBlockPadding == "zeros(BlockSize-64)"
        msgDig == Blake2b512(<<<<"hi", dig>>, random.bytes, emptyBlockPadding, msg>>)
        rr == <<"uniform", msgDig>>
        enc == <<"ScalarBaseMult", rr>>
        hram == Blake2b512(<<enc, pubKey, msg>>)
        kr == <<"uniform", hram>>
        s2 == <<"MultiplyAdd", kr, s1, rr>>
    IN  IF random.err # "nil" THEN Err(<<>>, "InsufficientRandomness")
        ELSE Ok(<<enc, s2>>)

\* fmt.Sprintf("%0128X", sig)
FormatSignature(sig) == <<"%0128X", sig>>

\* a Sign that writes the Signature field before it looks at the signing error
SignHashEager(b, privateKey, random, pubKey, hash) ==
    LET sig == Ed25519Sign(pubKey.val, privateKey, hash.val, random)
    IN  IF pubKey.status # "ok" THEN [res |-> pubKey, block |-> b]
        ELSE IF hash.status # "ok" THEN [res |-> hash, block |-> b]
        ELSE IF sig.status # "ok"
             THEN [res |-> sig, block |-> [b EXCEPT !.Signature = FormatSignature(sig.val)]]
        ELSE [res |-> Ok(<<>>), block |-> [b EXCEPT !.Signature = FormatSignature(sig.val)]]

\* Block.Sign once the public key and the hash are computed
SignHash(b, privateKey, random, pubKey, hash) ==
    LET sig == Ed25519Sign(pubKey.val, privateKey, hash.val, random)
    IN  IF pubKey.status # "ok" THEN [res |-> pubKey, block |-> b]
        ELSE IF hash.status # "ok" THEN [res |-> hash, block |-> b]
        ELSE IF sig.status # "ok" THEN [res |-> sig, block |-> b]
        ELSE [res |-> Ok(<<>>), block |-> [b EXCEPT !.Signature = FormatSignature(sig.val)]]

\* Block.Sign: the call's result and the block after it
Sign(b, privateKey, random) ==
    SignHash(b, privateKey, random, PrivateKeyToPublicKey(privateKey), hashBytes(b))

\* Block.AddWork
AddWork(b, work) == [b EXCEPT !.Work = work]

----------------------------------------------------------------------------
(* Key derivation. A Go int is its 8 bytes, two's complement, big-endian. *)

IntSize == 8

\* binary.BigEndian.PutUint32(iBytes, uint32(index)): the low 32 bits of index
PutUint32(index) == SubSeq(index, IntSize - 3, IntSize)

\* the result's val is the private key; comb is the hashed input
SeedToPrivateKey(seed, index) ==
    LET seedBytes == HexDecodeString(seed)
        iBytes == PutUint32(index)
        comb == seedBytes.val \o iBytes
    IN  IF seedBytes.status # "ok" THEN Err(Zeros(KeySize), "could not decode seed")
        ELSE IF Len(seedBytes.val) # KeySize THEN Err(Zeros(KeySize), "InvalidSeedLength")
        ELSE Ok(Blake2b256(comb))

----------------------------------------------------------------------------
(* The inputs of the address codec. *)

KeyFill == {7, 200}

PublicKeys == {KeyWith(z, b) : z \in 0..MaxZeroBytes, b \in KeyFill} \cup {Zeros(KeySize)}

\* values the 5-byte digest can take: one whose reversal starts with a byte >= 8 and
\* one whose reversal starts with a byte < 8 (the checksum then has fewer than 8 digits)
Digests == {<<146, 9, 85, 73, 166>>, <<40, 5, 13, 22, 0>>}

BurnAddress == NanoPrefix \o Repeat("1", KeyDigits) \o <<"h", "i", "f", "c", "8", "n", "p", "p">>

AddressLiterals == {<<>>, BurnAddress, NanoPrefix \o Repeat("1", 10), XrbPrefix \o Repeat("3", 61)}

\* the positions where the caller replaces a character, and the replacements
TamperAt == {1, 6, 30, 58, 65}

TamperWith == {"1", "z", "0"}

NoBlock == [Type |-> "", Account |-> <<>>, Previous |-> <<>>, Representative |-> <<>>,
            Balance |-> <<>>, Link |-> <<>>, LinkAsAccount |-> <<>>, Signature |-> <<>>,
            Work |-> ""]

NoCall == [fn |-> "none", arg |-> <<>>, origin |-> "none", status |-> "ok", val |-> <<>>, err |-> "nil"]

Call(fn, arg, r) ==
    [fn |-> fn, arg |-> arg, origin |-> origin, status |-> r.status, val |-> r.val, err |-> r.err]

\* an unrecovered panic ends the program
Running == ret.status # "panic"

NoInfo == [Frontier |-> <<>>, ConfirmedBalance |-> <<>>, Representative |-> <<>>]

\* no Client method is running
NoFrame == [op |-> "none", pc |-> "idle", outer |-> "none", calls |-> 0, seed |-> <<>>,
            index |-> <<>>, privKey |-> <<>>, addr |-> <<>>, info |-> NoInfo, raw |-> <<>>,
            to |-> <<>>, link |-> <<>>, pending |-> {}, hashes |-> <<>>]

NoNode == [opened |-> FALSE, frontier |-> <<>>, balance |-> 0, confirmedFrontier |-> <<>>,
           confirmedBalance |-> 0, representative |-> <<>>, receivable |-> {}, blocks |-> <<>>]

\* the program makes no use of a Client
ClientIdle == node = NoNode /\ call = NoFrame /\ events = <<>>

----------------------------------------------------------------------------
(* The address codec, as called by a client of the package. *)

InitAddr ==
    /\ publicKey \in PublicKeys
    /\ address = <<>>
    /\ origin = "none"
    /\ blake5 = <<>>
    /\ ret = NoCall
    /\ block = NoBlock
    /\ signLog = <<>>
    /\ derivLog = {}
    /\ ClientIdle

\* the caller keeps the address r that PublicKeyToAddress returned
Derived(r) ==
    /\ ret' = [Call("PublicKeyToAddress", publicKey, r) EXCEPT !.origin = "none"]
    /\ IF r.status = "ok"
       THEN address' = r.val /\ origin' = "derived"
       ELSE UNCHANGED <<address, origin>>

CallPublicKeyToAddress ==
    /\ Running
    /\ origin = "none"
    /\ \E fresh \in Digests :
         /\ Derived(PublicKeyToAddress(publicKey, Blake2b5(publicKey, fresh)))
         /\ blake5' = Blake5After(publicKey, fresh)
    /\ UNCHANGED <<publicKey, blockVars, derivLog, clientVars>>

CallAddressToPublicKey ==
    /\ Running
    /\ ret' = Call("AddressToPublicKey", address, AddressToPublicKey(address))
    /\ UNCHANGED <<addrVars, blockVars, derivLog, clientVars>>

\* the caller gets r from AddressIsValid
Validated(fresh, r) ==
    /\ ret' = Call("AddressIsValid", address, r.res)
    /\ blake5' = IF r.hashed = {} THEN blake5
                 ELSE Blake5After(CHOOSE d \in r.hashed : TRUE, fresh)

CallAddressIsValid ==
    /\ Running
    /\ \E fresh \in Digests : Validated(fresh, AddressIsValid(address, fresh))
    /\ UNCHANGED <<publicKey, address, origin, blockVars, derivLog, clientVars>>

\* the caller takes an address from elsewhere
PickAddress ==
    /\ Running
    /\ origin = "none"
    /\ \E a \in AddressLiterals : address' = a
    /\ origin' = "literal"
    /\ UNCHANGED <<publicKey, blake5, ret, blockVars, derivLog, clientVars>>

\* the caller replaces one character of an address it derived
Tamper ==
    /\ Running
    /\ origin \in {"derived", "legacy"}
    /\ \E i \in TamperAt, c \in TamperWith :
         /\ i <= Len(address)
         /\ address[i] # c
         /\ address' = [address EXCEPT ![i] = c]
    /\ origin' = "tampered"
    /\ UNCHANGED <<publicKey, blake5, ret, blockVars, derivLog, clientVars>>

\* the caller writes an address it derived with the legacy prefix
ToLegacy ==
    /\ Running
    /\ origin = "derived"
    /\ address' = XrbPrefix \o SubSeq(address, Len(NanoPrefix) + 1, Len(address))
    /\ origin' = "legacy"
    /\ UNCHANGED <<publicKey, blake5, ret, blockVars, derivLog, clientVars>>

NextAddr ==
    \/ CallPublicKeyToAddress
    \/ CallAddressToPublicKey
    \/ CallAddressIsValid
    \/ PickAddress
    \/ Tamper
    \/ ToLegacy

SpecAddr == InitAddr /\ [][NextAddr]_vars

----------------------------------------------------------------------------
(* The inputs of Block. *)

PrivateKeys == {"k1", "k2"}

Works == {"w1"}

Fields(b) == <<b.Account, b.Previous, b.Representative, b.Balance, b.Link>>

----------------------------------------------------------------------------
(* Block, as used by a client of the package. *)

InitBlock ==
    /\ publicKey = Zeros(KeySize)
    /\ address = <<>>
    /\ origin = "none"
    /\ blake5 = <<>>
    /\ ret = NoCall
    /\ \E a \in Accounts, p \in Previouses, r \in Representatives, bal \in Balances, l \in Links :
         block = [Type |-> "state", Account |-> a, Previous |-> p, Representative |-> r,
                  Balance |-> bal, Link |-> l, LinkAsAccount |-> a, Signature |-> <<>>,
                  Work |-> ""]
    /\ signLog = <<>>
    /\ derivLog = {}
    /\ ClientIdle

CallHashBytes ==
    /\ Running
    /\ ret' = Call("hashBytes", [block |-> block, privateKey |-> "none"], hashBytes(block))
    /\ UNCHANGED <<addrVars, blockVars, derivLog, clientVars>>

\* the caller gets r from block.Sign(privateKey)
Signed(privateKey, random, r) ==
    /\ ret' = Call("Sign", [block |-> block, privateKey |-> privateKey], r.res)
    /\ block' = r.block
    /\ signLog' = IF r.res.status = "ok"
                  THEN Append(signLog, [fields |-> Fields(block), privateKey |-> privateKey,
                                        random |-> random.bytes,
                                        signature |-> r.block.Signature])
                  ELSE signLog

CallSign ==
    /\ Running
    /\ Len(signLog) < MaxSigns
    /\ \E privateKey \in PrivateKeys, random \in RandomOutcomes :
         Signed(privateKey, random, Sign(block, privateKey, random))
    /\ UNCHANGED <<addrVars, derivLog, clientVars>>

\* the caller attaches work to a block it has signed
CallAddWork ==
    /\ Running
    /\ block.Signature # <<>>
    /\ block.Work = ""
    /\ \E work \in Works : block' = AddWork(block, work)
    /\ UNCHANGED <<addrVars, ret, signLog, derivLog, clientVars>>

NextBlock ==
    \/ CallHashBytes
    \/ CallSign
    \/ CallAddWork

SpecBlock == InitBlock /\ [][NextBlock]_vars

----------------------------------------------------------------------------
(* Key derivation, as used by a client of the package. *)

Seeds == {Repeat("0", 64), Repeat("F", 64), Repeat("0", 62), Repeat("g", 64)}

\* 0, 1, -1, 2^32 - 1, 2^32 and 2^32 + 1
Indices == {<<0, 0, 0, 0, 0, 0, 0, 0>>, <<0, 0, 0, 0, 0, 0, 0, 1>>,
            <<255, 255, 255, 255, 255, 255, 255, 255>>, <<0, 0, 0, 0, 255, 255, 255, 255>>,
            <<0, 0, 0, 1, 0, 0, 0, 0>>, <<0, 0, 0, 1, 0, 0, 0, 1>>}

InitSeed ==
    /\ publicKey = Zeros(KeySize)
    /\ address = <<>>
    /\ origin = "none"
    /\ blake5 = <<>>
    /\ ret = NoCall
    /\ block = NoBlock
    /\ signLog = <<>>
    /\ derivLog = {}
    /\ ClientIdle

\* the caller gets r from SeedToPrivateKey(seed, index)
Derive(seed, index, r) ==
    /\ ret' = Call("SeedToPrivateKey", [seed |-> seed, index |-> index], r)
    /\ derivLog' = IF r.status = "ok"
                   THEN derivLog \cup {[seed |-> seed, index |-> index, comb |-> r.val[2],
                                        key |-> r.val]}
                   ELSE derivLog

CallSeedToPrivateKey ==
    /\ Running
    /\ Cardinality(derivLog) < MaxDerivations
    /\ \E seed \in Seeds, index \in Indices : Derive(seed, index, SeedToPrivateKey(seed, index))
    /\ UNCHANGED <<addrVars, blockVars, clientVars>>

NextSeed == CallSeedToPrivateKey

SpecSeed == InitSeed /\ [][NextSeed]_vars

----------------------------------------------------------------------------
(* The RPC client. Amounts are small, so their values are TLA+ integers.   *)
(* The node behind the RPC server keeps the ledger of the wallet's account *)
(* and answers each request with a transport failure, an error body or the *)
(* result.                                                                 *)

\* top-level Client calls in one run
MaxCalls == 1

\* the value of a magnitude
RECURSIVE MagValue(_)
MagValue(m) == IF m = <<>> THEN 0 ELSE MagValue(SubSeq(m, 1, Len(m) - 1)) * 256 + m[Len(m)]

\* the value of the big.Int that SetString returned
IntValue(x) == IF x.neg THEN 0 - MagValue(x.abs) ELSE MagValue(x.abs)

RECURSIVE DigitsOf(_)
DigitsOf(n) ==
    IF n < 10 THEN <<DecDigits[n + 1]>> ELSE DigitsOf(n \div 10) \o <<DecDigits[(n % 10) + 1]>>

\* big.Int.String()
IntString(n) == IF n < 0 THEN <<"-">> \o DigitsOf(0 - n) ELSE DigitsOf(n)

\* fmt.Sprintf("%064X", key) of a [32]byte
Sprintf064X(key) ==
    [i \in 1..(2 * Len(key)) |->
        HexUpper[(IF i % 2 = 1 THEN key[(i + 1) \div 2] \div 16 ELSE key[i \div 2] % 16) + 1]]

WalletSeed == Repeat("0", 64)

ClientSeeds == {WalletSeed, Repeat("0", 62)}

Index0 == <<0, 0, 0, 0, 0, 0, 0, 0>>

WalletKey == KeyWith(0, 200)

WalletPoint == PrivateKeyToPublicKey(SeedToPrivateKey(WalletSeed, Index0).val).val

\* edwards25519 Point.Bytes(): the 32-byte encoding of the wallet's public key, and
\* another one for any other point
PointBytes(point) == IF point = WalletPoint THEN WalletKey ELSE KeyWith(0, 7)

WalletAddress == AccountOf(WalletKey)

OtherAddress == AccountOf(KeyWith(0, 7))

\* SeedToPrivateKey, PrivateKeyToPublicKey and PublicKeyToAddress, with which Send,
\* ChangeRepresentative, Receive and ReceiveAll begin
DeriveAccount(seed, index) ==
    LET privKey == SeedToPrivateKey(seed, index)
        pubKey == PrivateKeyToPublicKey(privKey.val)
        bytes == PointBytes(pubKey.val)
        addr == PublicKeyToAddress(bytes, KnownDigest(bytes))
    IN  IF privKey.status # "ok" THEN [res |-> Err(<<>>, privKey.err), privKey |-> <<>>, addr |-> <<>>]
        ELSE IF pubKey.status # "ok" THEN [res |-> pubKey, privKey |-> <<>>, addr |-> <<>>]
        ELSE IF addr.status # "ok" THEN [res |-> addr, privKey |-> <<>>, addr |-> <<>>]
        ELSE [res |-> Ok(<<>>), privKey |-> privKey.val, addr |-> addr.val]

----------------------------------------------------------------------------
(* The node. *)

\* what c.RPC can give: a response carrying the result, a non-nil error, or a
\* response whose body carries an "error" member
Outcomes == {"ok", "transport", "errorBody"}

\* the hash the node gives its n-th block
NewHash(n) == Repeat(HexUpper[n + 2], 64)

PendingHashes == {Repeat("E", 64), Repeat("F", 64)}

\* the blocks others have sent to the account
Pending ==
    {[hash |-> Repeat("E", 64), amount |-> <<"2">>, source |-> OtherAddress],
     [hash |-> Repeat("F", 64), amount |-> <<"3">>, source |-> OtherAddress]}

\* an account that is not opened, and one with a confirmed balance of 5
InitialNodes ==
    {[opened |-> FALSE, frontier |-> <<>>, balance |-> 0, confirmedFrontier |-> <<>>,
      confirmedBalance |-> 0, representative |-> <<>>, receivable |-> Pending, blocks |-> <<>>],
     [opened |-> TRUE, frontier |-> NewHash(0), balance |-> 5, confirmedFrontier |-> NewHash(0),
      confirmedBalance |-> 5, representative |-> OtherAddress, receivable |-> Pending,
      blocks |-> (NewHash(0) :> 5)]}

\* the balance of the entry with hash h; the all-zero hash names no entry
EntryBalance(n, h) == IF h \in DOMAIN n.blocks THEN n.blocks[h] ELSE 0

\* the members of the account_info response that the client reads
InfoOf(n) ==
    [Frontier |-> n.frontier, ConfirmedBalance |-> IntString(n.confirmedBalance),
     Representative |-> n.representative]

\* the node takes a block that extends the frontier and whose balance bal fits its
\* subtype
AcceptsBalance(n, subtype, b, bal) ==
    /\ b.Previous = (IF n.opened THEN n.frontier ELSE ZeroHash)
    /\ bal.ok /\ ~bal.neg
    /\ b.Signature # <<>> /\ b.Work # ""
    /\ CASE subtype = "send" -> n.opened /\ IntValue(bal) < n.balance
         [] subtype = "receive" ->
                \E p \in n.receivable :
                    p.hash = b.Link /\ IntValue(bal) = n.balance + IntValue(SetString10(p.amount))
         [] OTHER -> n.opened /\ IntValue(bal) = n.balance /\ b.Link = ZeroHash

Accepts(n, subtype, b) == AcceptsBalance(n, subtype, b, SetString10(b.Balance))

\* the ledger after the node took b with balance newBal as its h-th block: b is the
\* frontier, not yet confirmed
ProcessedAs(n, b, h, newBal) ==
    [n EXCEPT !.opened = TRUE, !.frontier = h, !.balance = newBal,
              !.representative = b.Representative,
              !.receivable = {p \in n.receivable : p.hash # b.Link},
              !.blocks = (h :> newBal) @@ n.blocks]

Processed(n, b) ==
    ProcessedAs(n, b, NewHash(Cardinality(DOMAIN n.blocks)), IntValue(SetString10(b.Balance)))

----------------------------------------------------------------------------
(* The Client methods that make one request. o is what c.RPC gives. *)

GetAccountBalance(o, n) ==
    IF o = "transport" THEN Err(<<>>, "transport")
    ELSE IF o = "errorBody" THEN Err(<<>>, "errorBody")
    ELSE Ok([Balance |-> IntString(n.balance)])

GetAccountInfo(o, n) ==
    IF o = "transport" THEN Err(NoInfo, "transport")
    ELSE IF o = "ok" /\ ~n.opened THEN Err(NoInfo, "ErrAccountNotFound")
    ELSE IF o = "errorBody" THEN Err(NoInfo, "errorBody")
    ELSE Ok(InfoOf(n))

GetAccountHistory(o, n) ==
    IF o = "transport" THEN Err(<<>>, "transport")
    ELSE IF o = "errorBody" THEN Err(<<>>, "errorBody")
    ELSE Ok([Account |-> WalletAddress, Previous |-> n.frontier])

\* a failed request is answered with an empty Receivable and a nil error
GetReceivable(o, n) ==
    IF o = "transport" THEN Ok({})
    ELSE IF o = "errorBody" THEN Err({}, "errorBody")
    ELSE Ok(n.receivable)

\* "empty": a response with no representative in it
GetRepresentatives(o) ==
    IF o = "transport" THEN Err(<<>>, "transport")
    ELSE IF o = "errorBody" THEN Err(<<>>, "errorBody")
    ELSE IF o = "empty" THEN Ok(<<>>)
    ELSE Ok(<<OtherAddress>>)

\* val is the hash of the block when the node took it
Process(o, n, subtype, b) ==
    IF o = "transport" THEN Err(<<>>, "transport")
    ELSE IF o = "errorBody" \/ ~Accepts(n, subtype, b) THEN Err(<<>>, "errorBody")
    ELSE Ok(NewHash(Cardinality(DOMAIN n.blocks)))

\* GenerateWork once the hash to work on is settled; rpc tells whether the request
\* was made
WorkFor(o, first, pubKey) ==
    IF first /\ pubKey.status # "ok" THEN [res |-> [pubKey EXCEPT !.val = <<>>], rpc |-> "none"]
    ELSE IF o = "transport" THEN [res |-> Err(<<>>, "transport"), rpc |-> o]
    ELSE IF o = "errorBody" THEN [res |-> Err(<<>>, "errorBody"), rpc |-> o]
    ELSE [res |-> Ok("w1"), rpc |-> o]

GenerateWork(o, b) ==
    WorkFor(o, b.Previous = <<"0">> \/ b.Previous = ZeroHash, AddressToPublicKeyOf(b.Account))

----------------------------------------------------------------------------
(* The blocks that Send, ChangeRepresentative and Receive build. c is the frame. *)

NewBlock(c, previous, representative, balance, link, linkAsAccount) ==
    [Type |-> "state", Account |-> c.addr, Previous |-> previous,
     Representative |-> representative, Balance |-> balance, Link |-> link,
     LinkAsAccount |-> linkAsAccount, Signature |-> <<>>, Work |-> ""]

\* Send from the parsed amounts on
SendChecked(c, bal, rawBigInt, rcptPubKey) ==
    IF ~bal.ok THEN [res |-> Err(<<>>, "could not convert string to big int"), block |-> NoBlock]
    ELSE IF ~rawBigInt.ok
         THEN [res |-> Err(<<>>, "could not convert string to big int"), block |-> NoBlock]
    ELSE IF IntValue(bal) < IntValue(rawBigInt)
         THEN [res |-> Err(<<>>, "raw is bigger than wallet balance"), block |-> NoBlock]
    ELSE IF rcptPubKey.status # "ok"
         THEN [res |-> [rcptPubKey EXCEPT !.val = <<>>], block |-> NoBlock]
    ELSE [res |-> Ok(<<>>),
          block |-> NewBlock(c, c.info.Frontier, c.info.Representative,
                             IntString(IntValue(bal) - IntValue(rawBigInt)),
                             Sprintf064X(rcptPubKey.val), c.to)]

BuildSend(c) ==
    SendChecked(c, SetString10(c.info.ConfirmedBalance), SetString10(c.raw),
                AddressToPublicKeyOf(c.to))

BuildChange(c) ==
    [res |-> Ok(<<>>),
     block |-> NewBlock(c, c.info.Frontier, c.to, c.info.ConfirmedBalance, ZeroHash, BurnAddress)]

\* Receive from the parsed amounts on
ReceiveChecked(c, bal, rawBigInt) ==
    IF ~bal.ok THEN [res |-> Err(<<>>, "could not convert string to big int"), block |-> NoBlock]
    ELSE IF ~rawBigInt.ok
         THEN [res |-> Err(<<>>, "could not convert string to big int"), block |-> NoBlock]
    ELSE [res |-> Ok(<<>>),
          block |-> NewBlock(c, c.info.Frontier, c.info.Representative,
                             IntString(IntValue(bal) + IntValue(rawBigInt)), c.link, c.to)]

BuildReceive(c) ==
    ReceiveChecked(c, SetString10(c.info.ConfirmedBalance), SetString10(c.raw))

Build(c) ==
    IF c.op = "Send" THEN BuildSend(c)
    ELSE IF c.op = "ChangeRepresentative" THEN BuildChange(c)
    ELSE BuildReceive(c)

\* the subtype handed to Process
Subtype(op) ==
    IF op = "Send" THEN "send" ELSE IF op = "ChangeRepresentative" THEN "change" ELSE "receive"

\* the method going on to GenerateWork whatever block.Sign returned
AfterSignAlways(res) == "work"

\* where the method goes after block.Sign returned err
AfterSign(res) == IF res.status # "ok" THEN "return" ELSE "work"

----------------------------------------------------------------------------
(* The Client, as used by a program; one method runs at a time, and the    *)
(* node confirms blocks in its own time.                                   *)

ClientRaws == {<<"2">>, <<"9">>, <<"-", "2">>, <<"x">>}

Recipients == {OtherAddress, ShortAddress}

Queries == {"GetAccountBalance", "GetAccountInfo", "GetAccountHistory", "GetReceivable",
            "GetRepresentatives"}

Event(fn, rpc, r, b) == [fn |-> fn, rpc |-> rpc, status |-> r.status, err |-> r.err, block |-> b]

Args(c) == [seed |-> c.seed, index |-> c.index, raw |-> c.raw, to |-> c.to, link |-> c.link]

InitClient ==
    /\ publicKey = Zeros(KeySize)
    /\ address = <<>>
    /\ origin = "none"
    /\ blake5 = <<>>
    /\ ret = NoCall
    /\ block = NoBlock
    /\ signLog = <<>>
    /\ derivLog = {}
    /\ node \in InitialNodes
    /\ call = NoFrame
    /\ events = <<>>

\* the running method returns r to its caller: to the loop of ReceiveAll or to the
\* program
Return(r) ==
    /\ ret' = Call(call.op, Args(call), r)
    /\ call' = [call EXCEPT !.pc = IF call.outer = "ReceiveAll" THEN "loop" ELSE "idle"]

\* a method is entered from frame c
Enter(c, op, seed, index, raw, to, link) ==
    /\ block' = NoBlock
    /\ events' = <<>>
    /\ ret' = ret
    /\ call' = [c EXCEPT !.op = op, !.pc = "derive", !.seed = seed, !.index = index,
                         !.privKey = <<>>, !.addr = <<>>, !.info = NoInfo, !.raw = raw,
                         !.to = to, !.link = link]

\* the frame of a new top-level call
Fresh == [NoFrame EXCEPT !.calls = call.calls + 1]

CanCall == Running /\ call.pc = "idle" /\ call.calls < MaxCalls

StartSend ==
    /\ CanCall
    /\ \E to \in Recipients, raw \in ClientRaws, seed \in ClientSeeds :
         Enter(Fresh, "Send", seed, Index0, raw, to, <<>>)
    /\ UNCHANGED <<addrVars, signLog, derivLog, node>>

StartChangeRepresentative ==
    /\ CanCall
    /\ \E representative \in Recipients, seed \in ClientSeeds :
         Enter(Fresh, "ChangeRepresentative", seed, Index0, <<>>, representative, <<>>)
    /\ UNCHANGED <<addrVars, signLog, derivLog, node>>

\* the program receives one of the blocks that wait for the account
StartReceive ==
    /\ CanCall
    /\ \E p \in node.receivable, seed \in ClientSeeds :
         Enter(Fresh, "Receive", seed, Index0, p.amount, p.source, p.hash)
    /\ UNCHANGED <<addrVars, signLog, derivLog, node>>

StartReceiveAll ==
    /\ CanCall
    /\ \E seed \in ClientSeeds :
         Enter([Fresh EXCEPT !.outer = "starting"], "ReceiveAll", seed, Index0, <<>>, <<>>, <<>>)
    /\ UNCHANGED <<addrVars, signLog, derivLog, node>>

\* the method has derived the key and the address: d
DerivedAccount(d) ==
    /\ events' = Append(events, Event("DeriveAccount", "none", d.res, NoBlock))
    /\ IF d.res.status = "ok"
       THEN /\ call' = [call EXCEPT !.privKey = d.privKey, !.addr = d.addr,
                                    !.pc = IF call.op = "ReceiveAll" THEN "receivable" ELSE "info"]
            /\ ret' = ret
       ELSE Return(d.res)

StepDeriveAccount ==
    /\ Running
    /\ call.pc = "derive"
    /\ DerivedAccount(DeriveAccount(call.seed, call.index))
    /\ UNCHANGED <<addrVars, blockVars, derivLog, node>>

\* the program calls one of the methods that make one request
StartQuery ==
    /\ CanCall
    /\ \E op \in Queries :
         /\ call' = [Fresh EXCEPT !.op = op, !.addr = WalletAddress,
                                  !.pc = CASE op = "GetAccountBalance" -> "balance"
                                           [] op = "GetAccountInfo" -> "info"
                                           [] op = "GetAccountHistory" -> "history"
                                           [] op = "GetReceivable" -> "receivable"
                                           [] OTHER -> "reps"]
    /\ events' = <<>>
    /\ block' = NoBlock
    /\ UNCHANGED <<addrVars, ret, signLog, derivLog, node>>

\* a method that makes one request has its answer r
Answered(fn, o, r) ==
    /\ events' = Append(events, Event(fn, o, r, NoBlock))
    /\ Return(r)

StepGetAccountBalance ==
    /\ Running
    /\ call.pc = "balance"
    /\ \E o \in Outcomes : Answered("GetAccountBalance", o, GetAccountBalance(o, node))
    /\ UNCHANGED <<addrVars, blockVars, derivLog, node>>

StepGetAccountHistory ==
    /\ Running
    /\ call.pc = "history"
    /\ \E o \in Outcomes : Answered("GetAccountHistory", o, GetAccountHistory(o, node))
    /\ UNCHANGED <<addrVars, blockVars, derivLog, node>>

\* info, err := c.GetAccountInfo(addr) and what the method does with err
GotAccountInfo(o, r) ==
    IF call.op = "GetAccountInfo" THEN Answered("GetAccountInfo", o, r)
    ELSE /\ events' = Append(events, Event("GetAccountInfo", o, r, NoBlock))
         /\ IF r.status = "ok"
            THEN call' = [call EXCEPT !.info = r.val, !.pc = "build"] /\ ret' = ret
            ELSE IF r.err = "ErrAccountNotFound" /\ call.op = "Receive"
            THEN call' = [call EXCEPT !.pc = "reps"] /\ ret' = ret
            ELSE Return(Err(<<>>, r.err))

StepGetAccountInfo ==
    /\ Running
    /\ call.pc = "info"
    /\ \E o \in Outcomes : GotAccountInfo(o, GetAccountInfo(o, node))
    /\ UNCHANGED <<addrVars, blockVars, derivLog, node>>

\* reps, err := c.GetRepresentatives() in Receive, for an account that is not opened
GotRepresentatives(o, r) ==
    IF call.op = "GetRepresentatives" THEN Answered("GetRepresentatives", o, r)
    ELSE /\ events' = Append(events, Event("GetRepresentatives", o, r, NoBlock))
         /\ IF r.status # "ok" THEN Return(Err(<<>>, r.err))
            ELSE IF r.val = <<>> THEN Return(Panic("index out of range"))
            ELSE /\ call' = [call EXCEPT !.pc = "build",
                                         !.info = [Frontier |-> ZeroHash,
                                                   ConfirmedBalance |-> <<"0">>,
                                                   Representative |-> r.val[1]]]
                 /\ ret' = ret

StepGetRepresentatives ==
    /\ Running
    /\ call.pc = "reps"
    /\ \E o \in Outcomes \cup {"empty"} : GotRepresentatives(o, GetRepresentatives(o))
    /\ UNCHANGED <<addrVars, blockVars, derivLog, node>>

\* the amounts are parsed and the block is built: b
Built(b) ==
    IF b.res.status # "ok"
    THEN Return(b.res) /\ block' = block
    ELSE block' = b.block /\ call' = [call EXCEPT !.pc = "sign"] /\ ret' = ret

StepBuild ==
    /\ Running
    /\ call.pc = "build"
    /\ Built(Build(call))
    /\ UNCHANGED <<addrVars, signLog, derivLog, node, events>>

\* err = block.Sign(privKey): s
SignedBy(s) ==
    /\ block' = s.block
    /\ events' = Append(events, Event("Sign", "none", s.res, s.block))
    /\ IF AfterSign(s.res) = "work"
       THEN call' = [call EXCEPT !.pc = "work"] /\ ret' = ret
       ELSE Return(s.res)

StepSign ==
    /\ Running
    /\ call.pc = "sign"
    /\ \E random \in RandomOutcomes : SignedBy(Sign(block, call.privKey, random))
    /\ UNCHANGED <<addrVars, signLog, derivLog, node>>

\* work, err := c.GenerateWork(block), then block.AddWork(work)
Worked(w) ==
    IF w.res.status = "ok"
    THEN /\ block' = AddWork(block, w.res.val)
         /\ events' = events \o <<Event("GenerateWork", w.rpc, w.res, block),
                                  Event("AddWork", "none", Ok(<<>>), AddWork(block, w.res.val))>>
         /\ call' = [call EXCEPT !.pc = "process"]
         /\ ret' = ret
    ELSE /\ events' = Append(events, Event("GenerateWork", w.rpc, w.res, block))
         /\ block' = block
         /\ Return(w.res)

StepGenerateWork ==
    /\ Running
    /\ call.pc = "work"
    /\ \E o \in Outcomes : Worked(GenerateWork(o, block))
    /\ UNCHANGED <<addrVars, signLog, derivLog, node>>

\* return c.Process(subtype, block): r
Processing(o, r) ==
    /\ events' = Append(events, Event("Process", o, r, block))
    /\ node' = IF r.status = "ok" THEN Processed(node, block) ELSE node
    /\ Return(r)

StepProcess ==
    /\ Running
    /\ call.pc = "process"
    /\ \E o \in Outcomes : Processing(o, Process(o, node, Subtype(call.op), block))
    /\ UNCHANGED <<addrVars, blockVars, derivLog>>

\* receivable, err := c.GetReceivable(addr) and what ReceiveAll does with err
GotReceivable(o, r) ==
    IF call.op = "GetReceivable" THEN Answered("GetReceivable", o, r)
    ELSE /\ events' = Append(events, Event("GetReceivable", o, r, NoBlock))
         /\ IF r.status # "ok"
            THEN /\ ret' = Call("ReceiveAll", Args(call), Err(<<>>, r.err))
                 /\ call' = [call EXCEPT !.pc = "idle", !.outer = "none"]
            ELSE /\ call' = [call EXCEPT !.pc = "loop", !.outer = "ReceiveAll",
                                         !.pending = r.val, !.hashes = <<>>]
                 /\ ret' = ret

StepGetReceivable ==
    /\ Running
    /\ call.pc = "receivable"
    /\ \E o \in Outcomes : GotReceivable(o, GetReceivable(o, node))
    /\ UNCHANGED <<addrVars, blockVars, derivLog, node>>

\* the loop of ReceiveAll: the Receive that has returned is looked at, then the next
\* block of the map is received, in whatever order the map gives, or the hashes are
\* returned
Looped(hashes) ==
    IF call.op = "Receive" /\ ret.status # "ok"
    THEN /\ ret' = Call("ReceiveAll", Args(call), Err(<<>>, ret.err))
         /\ call' = [call EXCEPT !.pc = "idle", !.outer = "none"]
         /\ UNCHANGED <<block, events>>
    ELSE IF call.pending = {}
    THEN /\ ret' = Call("ReceiveAll", Args(call), Ok(hashes))
         /\ call' = [call EXCEPT !.pc = "idle", !.outer = "none", !.hashes = hashes]
         /\ UNCHANGED <<block, events>>
    ELSE \E p \in call.pending :
             Enter([call EXCEPT !.pending = call.pending \ {p}, !.hashes = hashes],
                   "Receive", call.seed, call.index, p.amount, p.source, p.hash)

ReceiveAllNext ==
    /\ Running
    /\ call.pc = "loop"
    /\ Looped(IF call.op = "Receive" THEN Append(call.hashes, ret.val) ELSE call.hashes)
    /\ UNCHANGED <<addrVars, signLog, derivLog, node>>

\* the node confirms the frontier
Confirm ==
    /\ Running
    /\ node.confirmedFrontier # node.frontier
    /\ node' = [node EXCEPT !.confirmedFrontier = node.frontier,
                            !.confirmedBalance = node.balance]
    /\ UNCHANGED <<addrVars, ret, blockVars, derivLog, call, events>>

NextClient ==
    \/ StartSend
    \/ StartChangeRepresentative
    \/ StartReceive
    \/ StartReceiveAll
    \/ StartQuery
    \/ StepDeriveAccount
    \/ StepGetAccountBalance
    \/ StepGetAccountHistory
    \/ StepGetAccountInfo
    \/ StepGetRepresentatives
    \/ StepBuild
    \/ StepSign
    \/ StepGenerateWork
    \/ StepProcess
    \/ StepGetReceivable
    \/ ReceiveAllNext
    \/ Confirm

SpecClient == InitClient /\ [][NextClient]_vars

----------------------------------------------------------------------------
(* Claims about the address codec, checked under SpecAddr. *)

\* the 52-character key segment of an address of length 64 or 65
KeySegment(addr) == IF Len(addr) = XrbLen THEN SubSeq(addr, 5, 56) ELSE SubSeq(addr, 6, 57)

\* bytes left-padded with zero bytes to n
LeftPad(bytes, n) == Zeros(n - Len(bytes)) \o bytes

\* C1: round trip: for every 32-byte public key k, AddressToPublicKey applied to
\* PublicKeyToAddress(k) completes without error or crash and returns exactly k.
C1_RoundTrip ==
    (ret.fn = "AddressToPublicKey" /\ ret.origin = "derived")
        => (ret.status = "ok" /\ ret.val = publicKey)

\* C2: AddressIsValid is a total predicate: on every input string it returns true
\* or false and never panics or propagates an error.
C2_AddressIsValidTotal ==
    ret.fn = "AddressIsValid" => (ret.status = "ok" /\ ret.val \in BOOLEAN)

\* C3: the checksum segment written by PublicKeyToAddress(k) is the one AddressIsValid
\* recomputes, so AddressIsValid(PublicKeyToAddress(k)) is true for every key k, also
\* when the checksum has fewer than 8 base-32 digits. Stated of the calls that return
\* (C2 is about the calls that do not).
C3_DerivedAddressIsValid ==
    (ret.fn = "AddressIsValid" /\ ret.origin = "derived" /\ ret.status = "ok")
        => ret.val = TRUE

\* C6: on a string of length 64 or 65 whose key segment is made of alphabet characters
\* and decodes to an integer below 2^256 (its first digit is '1' or '3'),
\* AddressToPublicKey returns the 32 bytes of that integer, left-padded with zeros.
C6_DecodesTo32Bytes ==
    ( /\ ret.fn = "AddressToPublicKey"
      /\ Len(ret.arg) \in {XrbLen, NanoLen}
      /\ \A i \in 1..KeyDigits : KeySegment(ret.arg)[i] \in AlphSet
      /\ KeySegment(ret.arg)[1] \in {"1", "3"} )
        => ( /\ ret.status = "ok"
             /\ Len(ret.val) = KeySize
             /\ ret.val = LeftPad(base32Decode(KeySegment(ret.arg)).val, KeySize) )

\* C10: on a string of length 64 or 65 whose key segment holds a character outside
\* the alphabet, AddressToPublicKey returns the InvalidCharacter error to its caller
\* and does not crash.
C10_InvalidCharacterSurfaced ==
    ( /\ ret.fn = "AddressToPublicKey"
      /\ Len(ret.arg) \in {XrbLen, NanoLen}
      /\ \E i \in 1..KeyDigits : KeySegment(ret.arg)[i] \notin AlphSet )
        => (ret.status = "error" /\ ret.err = "InvalidCharacter")

\* "nano_" with total length 65, or "xrb_" with total length 64
RecognizedShape(addr) ==
    \/ HasPrefix(addr, NanoPrefix) /\ Len(addr) = NanoLen
    \/ HasPrefix(addr, XrbPrefix) /\ Len(addr) = XrbLen

\* C11: AddressToPublicKey fails with MalformedAddress on every string that is not
\* "nano_" with total length 65 or "xrb_" with total length 64: on every string whose
\* length is neither 64 nor 65, and on every string of length 64 or 65 that carries
\* the other prefix or no recognized prefix.
C11_MalformedRejected ==
    (ret.fn = "AddressToPublicKey" /\ ~RecognizedShape(ret.arg))
        => (ret.status = "error" /\ ret.err = "MalformedAddress")

\* the checksum digits of the key that was passed to PublicKeyToAddress
SumOfKey(k) == base32Encode(revertBytes(blake5[k]))

\* C14: for every 32-byte public key, PublicKeyToAddress returns without error a
\* string of exactly 65 characters: "nano_", then 60 characters of the base-32
\* alphabet; neither padding count (52 minus key digits, 8 minus checksum digits) is
\* negative.
C14_AddressShape ==
    ret.fn = "PublicKeyToAddress" =>
        /\ ret.status = "ok"
        /\ Len(ret.val) = NanoLen
        /\ HasPrefix(ret.val, NanoPrefix)
        /\ \A i \in (Len(NanoPrefix) + 1)..NanoLen : ret.val[i] \in AlphSet
        /\ KeyDigits - Len(base32Encode(ret.arg)) >= 0
        /\ SumDigits - Len(SumOfKey(ret.arg)) >= 0

\* PublicKeyToAddress has returned for a key and a digest that both need padding
C14_Witness ==
    /\ ret.fn = "PublicKeyToAddress"
    /\ ret.status = "ok"
    /\ KeyDigits - Len(base32Encode(ret.arg)) > 0
    /\ SumDigits - Len(SumOfKey(ret.arg)) > 0

\* the address derived from publicKey, written with the prefix that gives it the
\* length of addr
OriginalOf(addr) ==
    LET a == PublicKeyToAddress(publicKey, blake5[publicKey]).val
    IN  IF Len(addr) = XrbLen THEN XrbPrefix \o SubSeq(a, Len(NanoPrefix) + 1, Len(a)) ELSE a

\* the positions where two strings of one length differ
DiffAt(a, b) == {i \in 1..Len(a) : a[i] # b[i]}

\* addr is an address AddressIsValid accepts with exactly one character of its
\* 8-character checksum segment replaced
ChecksumFlipped(addr) ==
    /\ publicKey \in DOMAIN blake5
    /\ Len(addr) \in {XrbLen, NanoLen}
    /\ Cardinality(DiffAt(addr, OriginalOf(addr))) = 1
    /\ DiffAt(addr, OriginalOf(addr)) \subseteq (Len(addr) - SumDigits + 1)..Len(addr)
    /\ AddressIsValid(OriginalOf(addr), blake5[publicKey]).res = Ok(TRUE)

\* C15: checksum sensitivity: for every address a that AddressIsValid accepts and
\* every a' that differs from a in exactly one character of the 8-character checksum
\* segment, AddressIsValid(a') returns false.
C15_ChecksumSensitive ==
    (ret.fn = "AddressIsValid" /\ ret.origin = "tampered" /\ ChecksumFlipped(ret.arg))
        => (ret.status = "ok" /\ ret.val = FALSE)

\* AddressIsValid has returned for an accepted address with one checksum character
\* replaced by another character of the alphabet
C15_Witness ==
    /\ ret.fn = "AddressIsValid"
    /\ ret.origin = "tampered"
    /\ ChecksumFlipped(ret.arg)
    /\ \A i \in DiffAt(ret.arg, OriginalOf(ret.arg)) : ret.arg[i] \in AlphSet
    /\ ret.status = "ok"

----------------------------------------------------------------------------
(* Claims about Block, checked under SpecBlock. *)

\* the addresses of the 32-byte keys the blocks use
AccountTable == [k \in BlockKeys |-> AccountOf(k)]

IsAccount(a) == \E k \in BlockKeys : AccountTable[k] = a

KeyOfAccount(a) == CHOOSE k \in BlockKeys : AccountTable[k] = a

\* the hexadecimal encoding of 32 bytes
IsHash32(h) == Len(h) = 64 /\ \A i \in 1..Len(h) : IsHex(h[i])

\* the value of a string of decimal digits
DecimalValue(str) == ScanLoop(str, 1, <<>>)

\* a non-negative decimal integer below 2^128
IsBalance(str) ==
    /\ str # <<>>
    /\ \A i \in 1..Len(str) : IsDec(str[i])
    /\ Len(DecimalValue(str)) <= BalanceSize

\* the fields the code decodes before and after the balance are decoded without failure
Decodable(b) ==
    /\ AddressToPublicKeyOf(b.Account).status = "ok"
    /\ AddressToPublicKeyOf(b.Representative).status = "ok"

ExpectedPreimage(b) ==
    Zeros(31) \o <<BlockTypeByte>> \o KeyOfAccount(b.Account) \o HexDecodeString(b.Previous).val
        \o KeyOfAccount(b.Representative) \o LeftPad(DecimalValue(b.Balance), BalanceSize)
        \o HexDecodeString(b.Link).val

SameEntryAndKey(x, y) == x.fields = y.fields /\ x.privateKey = y.privateKey

\* C4: Sign is deterministic: two successful Sign calls on entries with identical
\* account, previous, representative, balance and link and with the same private key
\* store the identical Signature.
C4_SignDeterministic ==
    \A i, j \in DOMAIN signLog :
        SameEntryAndKey(signLog[i], signLog[j]) => signLog[i].signature = signLog[j].signature

\* C4, amended: Sign is hedged: two successful Sign calls on entries with identical
\* fields and with the same private key store the identical Signature exactly when the
\* random source returned the same 32 bytes to both (BLAKE2b taken as injective).
C4_SignHedged ==
    \A i, j \in DOMAIN signLog :
        SameEntryAndKey(signLog[i], signLog[j])
            => (signLog[i].signature = signLog[j].signature <=> signLog[i].random = signLog[j].random)

\* two successful Sign calls on one entry with one key and different random bytes
C4_Witness ==
    /\ Len(signLog) >= 2
    /\ SameEntryAndKey(signLog[1], signLog[2])
    /\ signLog[1].random # signLog[2].random
    /\ block.Signature = signLog[2].signature

\* C5: for an entry whose account and representative are addresses of 32-byte keys
\* (the all-zero key included), whose previous and link are hex encodings of 32 bytes
\* and whose balance is a decimal integer in [0, 2^128), the preimage is 176 bytes:
\* byte 31 = 0x06, 32..63 the account key, 64..95 previous, 96..127 the representative
\* key, 128..143 the balance big-endian, 144..175 link, and zero elsewhere.
C5_PreimageLayout ==
    ( /\ ret.fn = "hashBytes"
      /\ IsAccount(ret.arg.block.Account) /\ IsAccount(ret.arg.block.Representative)
      /\ IsHash32(ret.arg.block.Previous) /\ IsHash32(ret.arg.block.Link)
      /\ IsBalance(ret.arg.block.Balance) )
        => ( /\ ret.status = "ok"
             /\ Len(ret.val[2]) = PreimageSize
             /\ ret.val[2] = ExpectedPreimage(ret.arg.block) )

\* C7: hashing (and so Sign) returns the InvalidBalance error, without a crash and
\* without a hash, for every balance that is not a decimal integer in [0, 2^128),
\* "-1" and 2^128 included. Stated of the entries whose addresses the code decodes
\* and whose previous and link are valid, so that the balance decides the call.
C7_InvalidBalanceRejected ==
    ( /\ ret.fn \in {"hashBytes", "Sign"}
      /\ Decodable(ret.arg.block)
      /\ IsHash32(ret.arg.block.Previous) /\ IsHash32(ret.arg.block.Link)
      /\ ~IsBalance(ret.arg.block.Balance) )
        => (ret.status = "error" /\ ret.err = "InvalidBalance")

\* C8: hashing (and so Sign) fails with a hash error whenever previous or link is not
\* the hex encoding of 32 bytes, and with an error whenever account or representative
\* is no address; no hash comes from a preimage holding a short or truncated field.
\* The first part is stated of the entries whose addresses the code decodes and whose
\* balance is valid, so that previous and link are what decides the call.
C8_InvalidHashRejected ==
    ret.fn \in {"hashBytes", "Sign"} =>
        /\ ( /\ Decodable(ret.arg.block)
             /\ IsBalance(ret.arg.block.Balance)
             /\ ~(IsHash32(ret.arg.block.Previous) /\ IsHash32(ret.arg.block.Link)) )
               => (ret.status = "error" /\ ret.err \in {"InvalidByte", "ErrLength"})
        /\ ~(IsAccount(ret.arg.block.Account) /\ IsAccount(ret.arg.block.Representative))
               => ret.status = "error"
        /\ (ret.status = "ok" /\ ret.err = "nil" /\ ret.fn = "hashBytes")
               => (IsHash32(ret.arg.block.Previous) /\ IsHash32(ret.arg.block.Link))

\* the fields of a Block other than Signature
OtherFields == {"Type", "Account", "Previous", "Representative", "Balance", "Link",
                "LinkAsAccount", "Work"}

\* the step is a call of Block.Sign
IsSignStep == ret'.fn = "Sign" /\ (ret' # ret \/ signLog' # signLog)

\* C12: Sign mutates only the signature: over any call of Block.Sign, Type, Account,
\* Previous, Representative, Balance, Link, LinkAsAccount and Work are unchanged;
\* Signature is changed only when Sign returns no error and is left unchanged when
\* Sign fails.
C12_SignMutatesOnlySignature ==
    [][IsSignStep =>
          /\ \A f \in OtherFields : block'[f] = block[f]
          /\ ret'.status # "ok" => block'.Signature = block.Signature]_vars

\* a Sign call has failed on a block that already held a signature and work, and
\* the block still holds them
C12_Witness ==
    /\ ret.fn = "Sign"
    /\ ret.status = "error"
    /\ ret.arg.block.Signature # <<>>
    /\ ret.arg.block.Work # ""
    /\ block = ret.arg.block

----------------------------------------------------------------------------
(* Claims about key derivation, checked under SpecSeed. *)

\* C9: for a valid seed and two distinct indices (any Go int, negative values and
\* values of 2^32 or more included), the hashed inputs seed||index differ, and so do
\* the derived private keys.
C9_DistinctIndexDistinctKey ==
    \A x, y \in derivLog :
        (x.seed = y.seed /\ x.index # y.index) => (x.comb # y.comb /\ x.key # y.key)

----------------------------------------------------------------------------
(* Claims about the RPC client, checked under SpecClient. *)

\* the events are those of a running or finished Send, Receive or ChangeRepresentative
Lifecycle == call.op \in {"Send", "Receive", "ChangeRepresentative"}

EventsOf(fns) == {i \in DOMAIN events : events[i].fn \in fns}

\* C13: no error is silently swallowed: when the RPC request of a client operation
\* (GetAccountBalance, GetAccountInfo, GetAccountHistory, GetReceivable,
\* GetRepresentatives, GenerateWork, Process) returns an error, the operation returns
\* a non-nil error to its caller, and so does ReceiveAll, which relies on
\* GetReceivable.
C13_NoErrorSwallowed ==
    /\ \A i \in DOMAIN events : events[i].rpc = "transport" => events[i].status = "error"
    /\ ( /\ ret.fn = "ReceiveAll"
         /\ call.pc = "idle"
         /\ \E i \in EventsOf({"GetReceivable"}) : events[i].rpc = "transport" )
           => ret.status = "error"

\* Process was called as the i-th event right after AddWork stored the work that
\* GenerateWork returned, on the block that Sign had signed
Ordered(i) ==
    /\ i >= 4
    /\ events[i - 3].fn = "Sign" /\ events[i - 3].status = "ok"
    /\ events[i - 3].block.Signature # <<>>
    /\ events[i - 2].fn = "GenerateWork" /\ events[i - 2].status = "ok"
    /\ events[i - 2].block = events[i - 3].block
    /\ events[i - 1].fn = "AddWork"
    /\ events[i - 1].block.Work # ""
    /\ events[i - 1].block = AddWork(events[i - 3].block, events[i - 1].block.Work)
    /\ events[i].block = events[i - 1].block

\* the answer "account not found" that Receive takes as the news that the account is
\* to be opened
AccountToOpen(e) ==
    call.op = "Receive" /\ e.fn = "GetAccountInfo" /\ e.err = "ErrAccountNotFound"

\* C16: in Send, Receive and ChangeRepresentative, Process is invoked at most once per
\* call, and only after Sign has succeeded, then GenerateWork has succeeded and
\* AddWork has stored its result, in that order; if key derivation, the account-info
\* query, Sign or GenerateWork fails, Process is never invoked; the entry is not
\* mutated after it is handed to Process.
C16_LifecycleOrder ==
    Lifecycle =>
        /\ Cardinality(EventsOf({"Process"})) <= 1
        /\ \A i \in EventsOf({"Process"}) :
               /\ Ordered(i)
               /\ \A j \in 1..(i - 1) : events[j].status = "ok"
               /\ block = events[i].block

\* C16, amended: as C16, except that in Receive an account-info query that fails with
\* "account not found" does not end the call: Receive then asks for the online
\* representatives and goes on to open the account; any other failure of key
\* derivation, the account-info query, the representatives query, Sign or
\* GenerateWork means Process is never invoked.
C16_LifecycleOrderOpening ==
    Lifecycle =>
        /\ Cardinality(EventsOf({"Process"})) <= 1
        /\ \A i \in EventsOf({"Process"}) :
               /\ Ordered(i)
               /\ \A j \in 1..(i - 1) : events[j].status = "ok" \/ AccountToOpen(events[j])
               /\ block = events[i].block

\* a Receive has handed its block to Process after the node answered that the
\* account is not found, and has returned
C16_Witness ==
    /\ call.op = "Receive"
    /\ call.pc \in {"idle", "loop"}
    /\ EventsOf({"Process"}) # {}
    /\ \E j \in DOMAIN events : AccountToOpen(events[j])

\* the block balance b is the confirmed balance conf minus raw, within [0, conf]
SendBalance(b, conf, raw) == 0 <= b /\ b <= conf /\ b = conf - raw

\* the value of the decimal string str
ValueOf(str) == IntValue(SetString10(str))

\* raw is an integer that is negative or larger than the confirmed balance
Overdraws(raw, conf) ==
    /\ SetString10(raw).ok /\ SetString10(conf).ok
    /\ (ValueOf(raw) < 0 \/ ValueOf(raw) > ValueOf(conf))

\* C17: every block that Send signs and submits has a Balance b with
\* 0 <= b <= the account's confirmed balance, equal to the confirmed balance minus
\* the raw amount; for a raw amount larger than the confirmed balance, or negative,
\* Send returns an error without signing or submitting any block.
C17_SendBalanceBounded ==
    call.op = "Send" =>
        /\ \A i \in EventsOf({"Sign", "Process"}) :
               SendBalance(ValueOf(events[i].block.Balance), ValueOf(call.info.ConfirmedBalance),
                           ValueOf(call.raw))
        /\ Overdraws(call.raw, call.info.ConfirmedBalance) =>
               /\ EventsOf({"Sign", "Process"}) = {}
               /\ call.pc = "idle" => ret.status = "error"

\* C18: across the Receive calls on one account (as issued by ReceiveAll), each block
\* built has a Balance equal to the balance of the entry named by its Previous field
\* plus the received amount, also when the previously submitted block is the frontier
\* but is not yet confirmed by the node.
C18_ReceiveBalanceConsistent ==
    call.op = "Receive" =>
        \A i \in EventsOf({"Sign"}) :
            ValueOf(events[i].block.Balance)
                = EntryBalance(node, events[i].block.Previous) + ValueOf(call.raw)

====
